---- MODULE Spec2Model ----
(***************************************************************************)
(* Model of golem/core/keysauth.py: the key authority (KeysAuth) with its  *)
(* two backends RSAKeysAuth and EllipticalKeysAuth, the persisted key      *)
(* files, the proof-of-work search of generate_new and the difficulty      *)
(* score get_difficulty.                                                   *)
(*                                                                         *)
(* Abstractions.  A private key is [kind |-> "priv", k |-> n], its public  *)
(* counterpart [kind |-> "pub", k |-> n]; file content that is not a key   *)
(* is Garbage; a missing file is NoFile.  The 256-bit numeric hash sha2 is *)
(* scaled to HashBits bits and tabulated (IdHash, ObjHash).  Library calls *)
(* (privtopub, ECCx, RSA.importKey) fail with the exceptions the callers'  *)
(* except clauses name.                                                    *)
(***************************************************************************)
EXTENDS Integers, FiniteSets, Sequences, TLC

\* ------------------------------------------------------------------ bounds
HashBits == 4
NumKeys == 2
LoopSlack == 3
MaxOps == 3

\* ------------------------------------------------------------- value sets
Keys == 1..NumKeys
\* two authority objects: a first one and another one
Auths == 1..2
HashValues == 0..(2^HashBits - 1)
Targets == 0..HashBits
MaxLoop == HashBits + LoopSlack

NoneUuid == "<absent>"
Uuids == {NoneUuid, "None", "a"}
\* the name of a pair of files no application identifier resolves to: the
\* caller-chosen locations of save_to_files
ExportName == "x"
Names == {"", "None", "a", ExportName}

NoFile == [kind |-> "absent", k |-> 0]
Garbage == [kind |-> "garbage", k |-> 0]
Null == [kind |-> "null", k |-> 0]
\* what an operation hands back when it raises
Raised == [kind |-> "raise", k |-> 0]
PrivKey(n) == [kind |-> "priv", k |-> n]
PubKey(n) == [kind |-> "pub", k |-> n]

\* ---------------------------------------------------------- hash functions
\* sha2 of the identifier of key n (HashBits-bit stand-in for sha256)
IdHash(n) == ((7 * n + 4) % (2^HashBits - 1)) + 1

\* sha2 applied to the RSA key object itself, a value unrelated to the
\* identifier's hash
ObjHash(n) == ((5 * n + 1) % (2^HashBits - 1)) + 1

\* cnt_key_id: RSA hash_hex(exportKey("OpenSSH")[8:]), ECC public_key.encode('hex')
cnt_key_id(pub) == [kind |-> "id", k |-> pub.k]

\* an identifier that is not derived from a modelled key: any string, with
\* numeric hash h
StrId(h) == [kind |-> "str", k |-> h]

sha2(id) == IF id.kind = "str" THEN id.k ELSE IdHash(id.k)

\* a strict comparison in place of <=
HashLtMinHash(h, difficulty) ==
    IF difficulty <= HashBits
    THEN h < 2^(HashBits - difficulty)
    ELSE h * 2^(difficulty - HashBits) < 1

\* KeysAuth._count_min_hash: pow(2, 256 - difficulty); for difficulty > 256
\* Python yields the float 2^-(difficulty-256), so the comparison
\* h <= min_hash is h * 2^(difficulty-256) <= 1
HashLeqMinHash(h, difficulty) ==
    IF difficulty <= HashBits
    THEN h <= 2^(HashBits - difficulty)
    ELSE h * 2^(difficulty - HashBits) <= 1

\* ------------------------------------------------------------- file paths
\* KeysAuth.__get_key_loc: file_name_pattern.format("" if uuid is None else uuid)
get_key_loc(pref, uuid) ==
    [pref |-> pref, name |-> IF uuid = NoneUuid THEN "" ELSE uuid]

get_private_key_loc(uuid) == get_key_loc("priv", uuid)
get_public_key_loc(uuid) == get_key_loc("pub", uuid)

\* str(uuid) as the constructor applies it: str(None) is "None"
str(uuid) == IF uuid = NoneUuid THEN "None" ELSE uuid

Paths == [pref : {"priv", "pub"}, name : Names]

isfile(d, p) == d[p].kind # "absent"

\* outcome of a pair of file writes: both written, the first open fails
\* (nothing written), or the second open fails (only the first written)
WriteOutcomes == {"ok", "fail_priv", "fail_pub"}

WriteBoth(d, ploc, pc, publoc, pubc, o) ==
    IF o = "fail_priv" THEN d
    ELSE IF o = "fail_pub" THEN [d EXCEPT ![ploc] = pc]
    ELSE [d EXCEPT ![ploc] = pc, ![publoc] = pubc]

\* -------------------------------------------------------- library calls
\* a structurally valid private key: privtopub and ECCx(None, key) assert it
ValidPriv(c) == c.kind = "priv"

\* RSA.importKey raises ValueError on content that is not a key
Importable(c) == c.kind \in {"priv", "pub"}

\* privtopub / RSA publickey()
privtopub(priv) == PubKey(priv.k)

\* ECCx(None, raw_privkey): the signing / decryption context of one key
ECCx(priv) == [kind |-> "ecc", k |-> priv.k]

\* ------------------------------------------------------------------ state
NoAuth ==
    [state |-> "none", uuid |-> NoneUuid, private_key |-> Null,
     public_key |-> Null, key_id |-> Null, ecc |-> Null]

VARIABLES
    backend,    \* "RSA" or "ECC": the class every authority of the run has
    disk,       \* Paths -> file content
    auth,       \* Auths -> the authority object held in that slot
    search,     \* the running generate_new call: its position and locals
    last,       \* the operation that finished last and how it ended
    gd,         \* the running get_difficulty call: its position and locals
    ops,        \* number of constructions and mutating calls made so far
    thr,        \* threads: the position of each inside _set_and_save
    seen        \* the fields the capability operation that just ran has read

vars == <<backend, disk, auth, search, last, gd, ops, thr, seen>>

Ready(a) == auth[a].state = "ready"

\* no call is running
Idle ==
    /\ search.pc = "idle"
    /\ gd.pc # "loop"
    /\ \A t \in DOMAIN thr : thr[t].pc = "idle"

NoSearch == [pc |-> "idle", a |-> 0, d |-> 0, k |-> 0]
Threads == {1, 2}
NoCall ==
    [pc |-> "idle", a |-> 0, op |-> "", priv |-> Null, pub |-> Null,
     old |-> NoAuth]
NoSeen == [a |-> 0, au |-> NoAuth, during |-> NoAuth]
\* (prev_id, prev_result: the identifier and the result of the call before)
NoGd ==
    [pc |-> "idle", key_id |-> Null, difficulty |-> 0, result |-> 0,
     prev_id |-> Null, prev_result |-> 0]

Outcome(op, a, u, res, d, k, gen) ==
    [op |-> op, a |-> a, u |-> u, res |-> res, d |-> d, k |-> k, gen |-> gen,
     arg |-> "", sig |-> "", io |-> "ok", val |-> Null]

EmptyDisk == [p \in Paths |-> NoFile]

\* a key directory as the process may find it at start: empty, or holding
\* under one name a pair of files that are not keys
InitDisks ==
    {EmptyDisk} \cup
    {[p \in Paths |-> IF p.name = n THEN Garbage ELSE NoFile] :
        n \in Names \ {ExportName}}

Init ==
    /\ backend \in {"RSA", "ECC"}
    /\ disk \in InitDisks
    /\ auth = [a \in Auths |-> NoAuth]
    /\ search = NoSearch
    /\ gd = NoGd
    /\ last = Outcome("init", 0, NoneUuid, "ok", 0, 0, FALSE)
    /\ ops = 0
    /\ thr = [t \in Threads |-> NoCall]
    /\ seen = NoSeen

\* ------------------------------------------------------------ construction
\* the object after KeysAuth.__init__ (and, for ECC, the ECCx context) on
\* the files d holds under name n, for a caller that passed uuid u
\* (arg is the value handed to _load_private_key / _load_public_key)
Loaded(d, arg, u) ==
    [state |-> "ready", uuid |-> u,
     private_key |-> d[get_private_key_loc(arg)],
     public_key |-> d[get_public_key_loc(arg)],
     key_id |-> cnt_key_id(d[get_public_key_loc(arg)]),
     ecc |-> IF backend = "ECC" THEN ECCx(d[get_private_key_loc(arg)]) ELSE Null]

\* the test of _load_private_key / _load_public_key: both files are there
BothExist(d, arg) ==
    isfile(d, get_private_key_loc(arg)) /\ isfile(d, get_public_key_loc(arg))

\* only the missing file is written, an existing half is kept
generate_keys_missing_only(d, arg, k, o) ==
    WriteBoth(d, get_private_key_loc(arg),
              IF isfile(d, get_private_key_loc(arg))
              THEN d[get_private_key_loc(arg)] ELSE PrivKey(k),
              get_public_key_loc(arg),
              IF isfile(d, get_public_key_loc(arg))
              THEN d[get_public_key_loc(arg)] ELSE PubKey(k), o)

\* _generate_keys(arg): a fresh pair written to the two files of arg
generate_keys(d, arg, k, o) ==
    WriteBoth(d, get_private_key_loc(arg), PrivKey(k),
              get_public_key_loc(arg), PubKey(k), o)

\* __init__, both files present and usable: the load path
ConstructLoad(a, u) ==
    /\ Idle
    /\ ops < MaxOps
    /\ ops' = ops + 1
    /\ BothExist(disk, str(u))
    /\ IF backend = "RSA"
       THEN Importable(disk[get_private_key_loc(str(u))])
            /\ Importable(disk[get_public_key_loc(str(u))])
       ELSE ValidPriv(disk[get_private_key_loc(str(u))])
    /\ auth' = [auth EXCEPT ![a] = Loaded(disk, str(u), u)]
    /\ last' = Outcome("construct", a, u, "ok", 0, 0, FALSE)
    /\ UNCHANGED <<thr, seen, backend, disk, search>>
    /\ gd' = NoGd

\* __init__, a file missing: _load_private_key calls _generate_keys(str(uuid));
\* a failed write raises IOError out of the constructor
ConstructGenerate(a, u) ==
    /\ Idle
    /\ ops < MaxOps
    /\ ops' = ops + 1
    /\ ~BothExist(disk, str(u))
    /\ \E k \in Keys, o \in WriteOutcomes :
        /\ disk' = generate_keys(disk, str(u), k, o)
        /\ IF o = "ok"
           THEN /\ auth' = [auth EXCEPT ![a] = Loaded(disk', str(u), u)]
                /\ last' = Outcome("construct", a, u, "ok", 0, k, TRUE)
           ELSE /\ auth' = auth
                /\ last' = [Outcome("construct", a, u, "raise", 0, k, TRUE)
                                EXCEPT !.io = o]
    /\ UNCHANGED <<thr, seen, backend, search>>
    /\ gd' = NoGd

\* RSAKeysAuth.__init__ on files that RSA.importKey rejects: ValueError
ConstructImportError(a, u) ==
    /\ Idle
    /\ ops < MaxOps
    /\ ops' = ops + 1
    /\ backend = "RSA"
    /\ BothExist(disk, str(u))
    /\ \/ ~Importable(disk[get_private_key_loc(str(u))])
       \/ ~Importable(disk[get_public_key_loc(str(u))])
    /\ last' = Outcome("construct", a, u, "raise", 0, 0, FALSE)
    /\ UNCHANGED <<thr, seen, backend, disk, auth, search>>
    /\ gd' = NoGd

\* EllipticalKeysAuth.__init__ on a private key ECCx rejects: the except
\* branch calls _generate_keys(uuid) and reloads with uuid, not str(uuid)
ConstructFallback(a, u) ==
    /\ Idle
    /\ ops < MaxOps
    /\ ops' = ops + 1
    /\ backend = "ECC"
    /\ BothExist(disk, str(u))
    /\ ~ValidPriv(disk[get_private_key_loc(str(u))])
    /\ \E k \in Keys, o \in WriteOutcomes :
        /\ disk' = generate_keys(disk, u, k, o)
        /\ IF o = "ok"
           THEN /\ auth' = [auth EXCEPT ![a] = Loaded(disk', u, u)]
                /\ last' = Outcome("construct", a, u, "ok", 0, k, TRUE)
           ELSE /\ auth' = auth
                /\ last' = [Outcome("construct", a, u, "raise", 0, k, TRUE)
                                EXCEPT !.io = o]
    /\ UNCHANGED <<thr, seen, backend, search>>
    /\ gd' = NoGd

Construct(a, u) ==
    \/ ConstructLoad(a, u)
    \/ ConstructGenerate(a, u)
    \/ ConstructImportError(a, u)
    \/ ConstructFallback(a, u)

\* ---------------------------------------------------------- _set_and_save
\* the in-memory part of _set_and_save: private key, public key, key_id and,
\* for ECC, the ECCx context are those of the new pair
WithKeys(au, priv, pub) ==
    [au EXCEPT !.private_key = priv, !.public_key = pub,
               !.key_id = cnt_key_id(pub),
               !.ecc = IF backend = "ECC" THEN ECCx(priv) ELSE Null]

\* the files _set_and_save (and RSA generate_new) writes: those of self.uuid
SavedAt(d, uuid, priv, pub, o) ==
    WriteBoth(d, get_private_key_loc(uuid), priv, get_public_key_loc(uuid), pub, o)

\* ------------------------------------------------------------ generate_new
\* the loop test of generate_new on candidate k: ECC hashes the identifier
\* cnt_key_id(pub_key), RSA hashes the key object pub_key
SearchHash(k) ==
    IF backend = "ECC" THEN sha2(cnt_key_id(PubKey(k))) ELSE ObjHash(k)

Accepted(k, d) == HashLeqMinHash(SearchHash(k), d)

\* generate_new(difficulty): min_hash and the first candidate
GenerateNewCall(a, d) ==
    /\ Idle
    /\ ops < MaxOps
    /\ ops' = ops + 1
    /\ Ready(a)
    /\ \E k \in Keys : search' = [pc |-> "loop", a |-> a, d |-> d, k |-> k]
    /\ last' = Outcome("generate_new", a, auth[a].uuid, "running", d, 0, FALSE)
    /\ UNCHANGED <<thr, seen, backend, disk, auth>>
    /\ gd' = NoGd

\* the while loop: the candidate fails the test, another one is generated
GenerateNewRetry ==
    /\ search.pc = "loop"
    /\ ~Accepted(search.k, search.d)
    /\ \E k \in Keys : search' = [search EXCEPT !.k = k]
    /\ UNCHANGED <<thr, seen, ops, backend, disk, auth, last, gd>>

\* RSA: sha256 of an object that is not a string raises TypeError out of
\* generate_new (hashlib accepts strings and buffers only)
GenerateNewTypeError ==
    /\ search.pc = "loop"
    /\ backend = "RSA"
    /\ search' = NoSearch
    /\ last' = Outcome("generate_new", search.a, auth[search.a].uuid, "raise",
                       search.d, 0, FALSE)
    /\ UNCHANGED <<thr, seen, ops, backend, disk, auth, gd>>

\* the loop exits. ECC: _set_and_save, whose save_to_files swallows IOError.
\* RSA: the two files are written, a failed write raises IOError; the
\* object's fields are not assigned
GenerateNewSave ==
    /\ search.pc = "loop"
    /\ Accepted(search.k, search.d)
    /\ \E o \in WriteOutcomes :
        /\ disk' = SavedAt(disk, auth[search.a].uuid,
                           PrivKey(search.k), PubKey(search.k), o)
        /\ auth' = IF backend = "ECC"
                   THEN [auth EXCEPT ![search.a] =
                            WithKeys(@, PrivKey(search.k), PubKey(search.k))]
                   ELSE auth
        /\ last' = [Outcome("generate_new", search.a, auth[search.a].uuid,
                            IF backend = "RSA" /\ o # "ok" THEN "raise" ELSE "ok",
                            search.d, search.k, TRUE)
                        EXCEPT !.io = o]
    /\ search' = NoSearch
    /\ UNCHANGED <<thr, seen, ops, backend, gd>>

\* the backend's key generator hands the loop, in place of a rejected
\* candidate, one whose identifier has difficulty at least the target
FairCandidate ==
    /\ GenerateNewRetry
    /\ HashLeqMinHash(sha2(cnt_key_id(PubKey(search'.k))), search.d)

\* ---------------------------------------------------------- load_from_file
\* any file that exists is taken for a key
LoadableAnyFile(c) == c.kind # "absent"

\* _load_private_key_from_file and the derivation of the public key succeed
\* on content c
Loadable(c) == IF backend = "RSA" THEN Importable(c) ELSE ValidPriv(c)

FileContents == {NoFile, Garbage} \cup {PrivKey(k) : k \in Keys}

\* load_from_file on a missing file or on content that is not a key:
\* returns False before _set_and_save
LoadFromFileBad(a, c) ==
    /\ Idle
    /\ ops < MaxOps
    /\ ops' = ops + 1
    /\ Ready(a)
    /\ ~isfile([f |-> c], "f") \/ ~Loadable(c)
    /\ last' = [Outcome("load_from_file", a, auth[a].uuid, "false", 0, 0, FALSE)
                    EXCEPT !.arg = c.kind]
    /\ UNCHANGED <<thr, seen, backend, disk, auth, search>>
    /\ gd' = NoGd

\* load_from_file on a private key: _set_and_save, then True. RSA
\* _set_and_save raises IOError when a write fails, after the fields were set
LoadFromFileKey(a, c) ==
    /\ Idle
    /\ ops < MaxOps
    /\ ops' = ops + 1
    /\ Ready(a)
    /\ isfile([f |-> c], "f") /\ Loadable(c)
    /\ \E o \in WriteOutcomes :
        /\ auth' = [auth EXCEPT ![a] = WithKeys(@, c, privtopub(c))]
        /\ disk' = SavedAt(disk, auth[a].uuid, c, privtopub(c), o)
        /\ last' = [Outcome("load_from_file", a, auth[a].uuid,
                            IF backend = "RSA" /\ o # "ok" THEN "raise" ELSE "true",
                            0, c.k, FALSE)
                        EXCEPT !.arg = c.kind, !.io = o]
    /\ UNCHANGED <<thr, seen, backend, search>>
    /\ gd' = NoGd

\* ------------------------------------------------------------------ verify
Msgs == {1, 2}

\* what a caller may pass as public_key: nothing (None), a key in raw form,
\* an ECC key as 128 hex characters, bytes of a wrong length, 128 characters
\* that are not hex digits, a value that is not a string
HexPub(n) == [kind |-> "hexpub", k |-> n]
NonHex128 == [kind |-> "nonhex128", k |-> 0]
NotString == [kind |-> "notstring", k |-> 0]

PubArgs ==
    {Null, Garbage, NonHex128, NotString}
        \cup {PubKey(n) : n \in Keys} \cup {HexPub(n) : n \in Keys}

\* a signature of message m under key n, or bytes that are no signature
Sig(n, m) == [kind |-> "sig", k |-> n, m |-> m]
BadSig == [kind |-> "badsig", k |-> 0, m |-> 0]
\* (signatures over message 1; data ranges over both messages)
SigArgs == {BadSig} \cup {Sig(n, 1) : n \in Keys}

\* the library's signature check with a well-formed public key
SigValid(sig, data, pub) ==
    sig.kind = "sig" /\ sig.k = pub.k /\ sig.m = data

\* EllipticalKeysAuth.verify: "true", "false" or "raise"; the try block
\* catches AssertionError only, so the TypeError of len() on a value that is
\* not a string and of decode('hex') on non-hex characters leaves the method
verify_ecc(au, sig, data, public_key) ==
    LET pk == IF public_key = Null THEN au.public_key ELSE public_key IN
    IF pk.kind = "notstring" THEN "raise"
    ELSE IF pk.kind = "nonhex128" THEN "raise"
    ELSE LET raw == IF pk.kind = "hexpub" THEN PubKey(pk.k) ELSE pk IN
         IF raw.kind # "pub" THEN "false"
         ELSE IF sig.kind # "sig" THEN "false"
         ELSE IF SigValid(sig, data, raw) THEN "true" ELSE "false"

\* RSAKeysAuth.verify: public_key.verify(data, sig) with no try block; a
\* public_key that is not an RSA key object has no verify attribute
verify_rsa(au, sig, data, public_key) ==
    LET pk == IF public_key = Null THEN au.public_key ELSE public_key IN
    IF pk.kind # "pub" THEN "raise"
    ELSE IF SigValid(sig, data, pk) THEN "true" ELSE "false"

verify(au, sig, data, public_key) ==
    IF backend = "ECC" THEN verify_ecc(au, sig, data, public_key)
    ELSE verify_rsa(au, sig, data, public_key)

Verify(a, sig, data, public_key) ==
    /\ Idle
    /\ Ready(a)
    /\ last' = [Outcome("verify", a, auth[a].uuid,
                        verify(auth[a], sig, data, public_key), 0, 0, FALSE)
                    EXCEPT !.arg = public_key.kind, !.sig = sig.kind]
    /\ gd' = NoGd
    /\ UNCHANGED <<thr, seen, ops, backend, disk, auth, search>>

\* ------------------------------------------------------------ save_to_files
\* the locations a caller exports to: a pair of files that is not the
\* default pair of any application identifier
ExportLocs ==
    {<<get_key_loc("priv", ExportName), get_key_loc("pub", ExportName)>>}

\* the IOError of a failed write leaves the method
SaveToFilesRaises(a, private_key_loc, public_key_loc) ==
    /\ Idle
    /\ ops < MaxOps
    /\ ops' = ops + 1
    /\ Ready(a)
    /\ \E o \in WriteOutcomes :
        /\ disk' = WriteBoth(disk, private_key_loc, auth[a].private_key,
                             public_key_loc, auth[a].public_key, o)
        /\ last' = [Outcome("save_to_files", a, auth[a].uuid,
                            IF o = "ok" THEN "true" ELSE "raise", 0, 0, FALSE)
                        EXCEPT !.io = o]
    /\ gd' = NoGd
    /\ UNCHANGED <<thr, seen, backend, auth, search>>

\* save_to_files(private_key_loc, public_key_loc): the two writes inside
\* one try block; True after the second write, False on IOError
SaveToFiles(a, private_key_loc, public_key_loc) ==
    /\ Idle
    /\ ops < MaxOps
    /\ ops' = ops + 1
    /\ Ready(a)
    /\ \E o \in WriteOutcomes :
        /\ disk' = WriteBoth(disk, private_key_loc, auth[a].private_key,
                             public_key_loc, auth[a].public_key, o)
        /\ last' = [Outcome("save_to_files", a, auth[a].uuid,
                            IF o = "ok" THEN "true" ELSE "false", 0, 0, FALSE)
                        EXCEPT !.io = o]
    /\ gd' = NoGd
    /\ UNCHANGED <<thr, seen, backend, auth, search>>

\* --------------------------------------------------------- encrypt, decrypt
\* a ciphertext of message m for the holder of key n; a plaintext
Enc(n, m) == [kind |-> "enc", k |-> n, m |-> m]
Msg(m) == [kind |-> "msg", k |-> m]

\* public_key.encode('hex') of a 64-byte key has 128 characters
hex(pub) == IF pub.kind = "pub" THEN HexPub(pub.k) ELSE Garbage

\* the library's encryption with a well-formed public key; anything else
\* is rejected with an exception
ecies_encrypt(data, raw) ==
    IF raw.kind = "pub" THEN Enc(raw.k, data) ELSE Raised

\* the library's decryption: the plaintext for the key the ciphertext was
\* made for; with another key ECIES fails its integrity check, RSA yields
\* other bytes
ecies_decrypt(key, data) ==
    IF data.kind # "enc" THEN Raised
    ELSE IF data.k = key.k THEN Msg(data.m)
    ELSE IF backend = "ECC" THEN Raised ELSE Garbage

\* encrypt(data, public_key): ECC takes a key of 128 characters for hex
encrypt(au, data, public_key) ==
    LET pk == IF public_key = Null THEN au.public_key ELSE public_key IN
    IF backend = "RSA" THEN ecies_encrypt(data, pk)
    ELSE IF pk.kind \in {"notstring", "nonhex128"} THEN Raised
    ELSE ecies_encrypt(data, IF pk.kind = "hexpub" THEN PubKey(pk.k) ELSE pk)

\* decrypt(data): ECC with the ECCx context self.ecc, RSA with
\* self._private_key
decrypt(au, data) ==
    ecies_decrypt(IF backend = "ECC" THEN au.ecc ELSE au.private_key, data)

\* how a caller names the authority's own public key: not at all, as the
\* value get_public_key returns, or (ECC) as the 128 characters of key_id
EncForms == IF backend = "ECC" THEN {"default", "raw", "hex"} ELSE {"default", "raw"}

OwnKey(au, form) ==
    IF form = "default" THEN Null
    ELSE IF form = "raw" THEN au.public_key
    ELSE hex(au.public_key)

Encrypt(a, data, form) ==
    /\ Idle
    /\ Ready(a)
    /\ last' = [Outcome("encrypt", a, auth[a].uuid,
                        IF encrypt(auth[a], data, OwnKey(auth[a], form)) = Raised
                        THEN "raise" ELSE "ok",
                        data, 0, FALSE)
                    EXCEPT !.arg = form,
                           !.val = encrypt(auth[a], data, OwnKey(auth[a], form))]
    /\ gd' = NoGd
    /\ UNCHANGED <<thr, seen, ops, backend, disk, auth, search>>

\* decrypt on the ciphertext the authority has just made (last.d is the
\* message encrypted)
Decrypt(a) ==
    /\ Idle
    /\ Ready(a)
    /\ last.op = "encrypt"
    /\ last.a = a
    /\ last.res = "ok"
    /\ last' = [Outcome("decrypt", a, auth[a].uuid,
                        IF decrypt(auth[a], last.val) = Raised
                        THEN "raise" ELSE "ok",
                        last.d, 0, FALSE)
                    EXCEPT !.arg = last.arg,
                           !.val = decrypt(auth[a], last.val)]
    /\ gd' = NoGd
    /\ UNCHANGED <<thr, seen, ops, backend, disk, auth, search>>

\* -------------------------------------------------------------------- sign
\* sign(data): ECC signs with the ECCx context self.ecc, RSA with
\* self._private_key; a value that is no private key has no sign method
sign(au, data) ==
    LET signer == IF backend = "ECC" THEN au.ecc ELSE au.private_key IN
    IF signer.kind \in {"ecc", "priv"} THEN Sig(signer.k, data) ELSE Raised

Sign(a, data) ==
    /\ Idle
    /\ Ready(a)
    /\ last' = [Outcome("sign", a, auth[a].uuid,
                        IF sign(auth[a], data) = Raised THEN "raise" ELSE "ok",
                        data, 0, FALSE)
                    EXCEPT !.val = sign(auth[a], data)]
    /\ gd' = NoGd
    /\ UNCHANGED <<thr, seen, ops, backend, disk, auth, search>>

\* verify(sig, data) with the default public key, on the signature the
\* authority has just made (last.d is the message signed)
VerifySigned(a, data) ==
    /\ Idle
    /\ Ready(a)
    /\ last.op = "sign"
    /\ last.a = a
    /\ last.res = "ok"
    /\ last' = [Outcome("verify", a, auth[a].uuid,
                        verify(auth[a], last.val, data, Null),
                        last.d, data, FALSE)
                    EXCEPT !.arg = "null", !.sig = "signed"]
    /\ gd' = NoGd
    /\ UNCHANGED <<thr, seen, ops, backend, disk, auth, search>>

\* ---------------------------------------------------------- get_difficulty
\* identifiers a caller may score: those of the modelled keys and arbitrary
\* strings, one per value of the numeric hash
KeyIds == {cnt_key_id(PubKey(n)) : n \in Keys}
StrIds == {StrId(h) : h \in HashValues}

\* lines 50-53: difficulty = 0, key_id defaults to self.key_id
GetDifficultyCall(a, key_id) ==
    /\ Idle
    /\ Ready(a)
    /\ gd' = [pc |-> "loop",
              key_id |-> IF key_id = Null THEN auth[a].key_id ELSE key_id,
              difficulty |-> 0, result |-> 0,
              prev_id |-> Null, prev_result |-> 0]
    /\ UNCHANGED <<thr, seen, ops, backend, disk, auth, search, last>>

\* get_difficulty(key_id) with an explicit identifier: self is not read
GetDifficultyOf(key_id) ==
    /\ Idle
    /\ gd' = [pc |-> "loop", key_id |-> key_id, difficulty |-> 0, result |-> 0,
              prev_id |-> IF gd.pc = "done" THEN gd.key_id ELSE Null,
              prev_result |-> IF gd.pc = "done" THEN gd.result ELSE 0]
    /\ UNCHANGED <<thr, seen, ops, backend, disk, auth, search, last>>

\* the counter advances without the test of the hash
GetDifficultyLoopUnguarded ==
    /\ gd.pc = "loop"
    /\ gd.difficulty < MaxLoop
    /\ gd' = [gd EXCEPT !.difficulty = @ + 1]
    /\ UNCHANGED <<thr, seen, ops, backend, disk, auth, search, last>>

\* lines 54-56: while sha2(key_id) <= min_hash: difficulty += 1
GetDifficultyLoop ==
    /\ gd.pc = "loop"
    /\ HashLeqMinHash(sha2(gd.key_id), gd.difficulty)
    /\ gd.difficulty < MaxLoop
    /\ gd' = [gd EXCEPT !.difficulty = @ + 1]
    /\ UNCHANGED <<thr, seen, ops, backend, disk, auth, search, last>>

\* the loop counter returned as it is
GetDifficultyReturnCounter ==
    /\ gd.pc = "loop"
    /\ ~HashLeqMinHash(sha2(gd.key_id), gd.difficulty)
    /\ gd' = [gd EXCEPT !.pc = "done", !.result = gd.difficulty]
    /\ UNCHANGED <<thr, seen, ops, backend, disk, auth, search, last>>

\* line 58: return difficulty - 1
GetDifficultyReturn ==
    /\ gd.pc = "loop"
    /\ ~HashLeqMinHash(sha2(gd.key_id), gd.difficulty)
    /\ gd' = [gd EXCEPT !.pc = "done", !.result = gd.difficulty - 1]
    /\ UNCHANGED <<thr, seen, ops, backend, disk, auth, search, last>>

\* ------------------------------------------------------------------ threads
\* Two threads share the authorities. The code takes no lock, so a thread
\* switch may fall between any two statements of _set_and_save, and a
\* capability operation of another thread reads the fields as they are.

\* load_from_file up to the call of _set_and_save (lines 420-427, 246-253)
CallLoadFromFile(t, a, c) ==
    /\ thr[t].pc = "idle"
    /\ Ready(a)
    /\ ops < MaxOps
    /\ ops' = ops + 1
    /\ isfile([f |-> c], "f") /\ Loadable(c)
    /\ thr' = [thr EXCEPT ![t] = [pc |-> "set_private", a |-> a,
                                  op |-> "load_from_file",
                                  priv |-> c, pub |-> privtopub(c),
                                  old |-> auth[a]]]
    /\ UNCHANGED <<backend, disk, auth, search, last, gd>>
    /\ seen' = NoSeen

\* ECC generate_new up to the call of _set_and_save (lines 406-412): the
\* loop has left with an accepted candidate k
CallGenerateNew(t, a, d, k) ==
    /\ thr[t].pc = "idle"
    /\ Ready(a)
    /\ backend = "ECC"
    /\ ops < MaxOps
    /\ ops' = ops + 1
    /\ Accepted(k, d)
    /\ thr' = [thr EXCEPT ![t] = [pc |-> "set_private", a |-> a,
                                  op |-> "generate_new",
                                  priv |-> PrivKey(k), pub |-> PubKey(k),
                                  old |-> auth[a]]]
    /\ UNCHANGED <<backend, disk, auth, search, last, gd>>
    /\ seen' = NoSeen

\* self._private_key = priv_key (lines 448, 317)
SetPrivateKey(t) ==
    /\ thr[t].pc = "set_private"
    /\ auth' = [auth EXCEPT ![thr[t].a].private_key = thr[t].priv]
    /\ thr' = [thr EXCEPT ![t].pc = "set_public"]
    /\ UNCHANGED <<backend, disk, search, last, gd, ops>>
    /\ seen' = NoSeen

\* self.public_key = pub_key (lines 449, 318)
SetPublicKey(t) ==
    /\ thr[t].pc = "set_public"
    /\ auth' = [auth EXCEPT ![thr[t].a].public_key = thr[t].pub]
    /\ thr' = [thr EXCEPT ![t].pc = "set_key_id"]
    /\ UNCHANGED <<backend, disk, search, last, gd, ops>>
    /\ seen' = NoSeen

\* self.key_id = self.cnt_key_id(...) (lines 450, 319)
SetKeyId(t) ==
    /\ thr[t].pc = "set_key_id"
    /\ auth' = [auth EXCEPT ![thr[t].a].key_id =
                    cnt_key_id(IF backend = "ECC" THEN thr[t].pub
                               ELSE auth[thr[t].a].public_key)]
    /\ thr' = [thr EXCEPT ![t].pc = "save"]
    /\ UNCHANGED <<backend, disk, search, last, gd, ops>>
    /\ seen' = NoSeen

\* the two file writes (line 451 save_to_files of the current fields;
\* lines 320-325). RSA returns here, or raises IOError
SaveFiles(t) ==
    /\ thr[t].pc = "save"
    /\ \E o \in WriteOutcomes :
        /\ disk' = SavedAt(disk, auth[thr[t].a].uuid,
                           IF backend = "ECC" THEN auth[thr[t].a].private_key
                           ELSE thr[t].priv,
                           IF backend = "ECC" THEN auth[thr[t].a].public_key
                           ELSE thr[t].pub, o)
        /\ IF backend = "ECC"
           THEN /\ thr' = [thr EXCEPT ![t].pc = "set_ecc"]
                /\ last' = last
           ELSE /\ thr' = [thr EXCEPT ![t] = NoCall]
                /\ last' = [Outcome(thr[t].op, thr[t].a, auth[thr[t].a].uuid,
                                    IF o # "ok" THEN "raise" ELSE "true",
                                    0, thr[t].priv.k, FALSE)
                                EXCEPT !.io = o]
    /\ UNCHANGED <<backend, auth, search, gd, ops>>
    /\ seen' = NoSeen

\* self.ecc = ECCx(None, self._private_key) (line 452), then the return
SetEcc(t) ==
    /\ thr[t].pc = "set_ecc"
    /\ auth' = [auth EXCEPT ![thr[t].a].ecc = ECCx(auth[thr[t].a].private_key)]
    /\ thr' = [thr EXCEPT ![t] = NoCall]
    /\ last' = Outcome(thr[t].op, thr[t].a, auth[thr[t].a].uuid,
                       IF thr[t].op = "generate_new" THEN "ok" ELSE "true",
                       0, thr[t].priv.k, FALSE)
    /\ UNCHANGED <<backend, disk, search, gd, ops>>
    /\ seen' = NoSeen

\* a capability operation (encrypt, decrypt, sign, verify, get_key_id,
\* get_public_key) of another thread reads the fields of authority a while
\* thread t is inside a mutating call on a; during is the object as that
\* call found it
Observe(a, t) ==
    /\ Ready(a)
    /\ thr[t].pc # "idle"
    /\ thr[t].a = a
    /\ seen' = [a |-> a, au |-> auth[a], during |-> thr[t].old]
    /\ UNCHANGED <<backend, disk, auth, search, last, gd, ops, thr>>

\* ---------------------------------------------------------- specifications
\* the operations that construct an authority or change one, one call at
\* a time
Next ==
    \/ \E a \in Auths, u \in Uuids : Construct(a, u)
    \/ \E a \in Auths, d \in Targets : GenerateNewCall(a, d)
    \/ GenerateNewRetry
    \/ GenerateNewTypeError
    \/ GenerateNewSave
    \/ \E a \in Auths, c \in FileContents : LoadFromFileBad(a, c)
    \/ \E a \in Auths, c \in FileContents : LoadFromFileKey(a, c)

Spec == Init /\ [][Next]_vars

\* the same operations with generate_new run to its end: an accepted
\* candidate is saved, and the generator again and again produces candidates
\* that meet the target when there are any
SpecSearchFair ==
    /\ Init
    /\ [][Next]_vars
    /\ WF_vars(GenerateNewSave)
    /\ SF_vars(FairCandidate)

\* the same operations and get_difficulty calls on the authorities
NextPow ==
    \/ Next
    \/ \E a \in Auths, id \in KeyIds \cup {Null} : GetDifficultyCall(a, id)
    \/ GetDifficultyLoop
    \/ GetDifficultyReturn

SpecPow == Init /\ [][NextPow]_vars

\* the same operations and verify calls on the authorities
NextVerify ==
    \/ Next
    \/ \E a \in Auths, sig \in SigArgs, data \in Msgs, pk \in PubArgs :
            Verify(a, sig, data, pk)

SpecVerify == Init /\ [][NextVerify]_vars

\* the same operations, sign calls and verify calls on what was signed
NextSign ==
    \/ Next
    \/ \E a \in Auths, data \in Msgs : Sign(a, data)
    \/ \E a \in Auths, data \in Msgs : VerifySigned(a, data)

SpecSign == Init /\ [][NextSign]_vars

\* constructions, and get_difficulty calls on the constructed authorities
NextFresh ==
    \/ \E a \in Auths, u \in Uuids : Construct(a, u)
    \/ \E a \in Auths : GetDifficultyCall(a, Null)
    \/ GetDifficultyLoop
    \/ GetDifficultyReturn

SpecFresh == Init /\ [][NextFresh]_vars

\* the same operations, encrypt calls with the authority's own public key
\* and decrypt calls on what was encrypted
NextCrypt ==
    \/ Next
    \/ \E a \in Auths, data \in Msgs, form \in EncForms : Encrypt(a, data, form)
    \/ \E a \in Auths : Decrypt(a)

SpecCrypt == Init /\ [][NextCrypt]_vars

\* the same operations and save_to_files calls
NextSave ==
    \/ Next
    \/ \E a \in Auths, locs \in ExportLocs : SaveToFiles(a, locs[1], locs[2])

SpecSave == Init /\ [][NextSave]_vars

\* get_difficulty as a function of the identifier alone
NextDifficulty ==
    \/ \E id \in KeyIds \cup StrIds : GetDifficultyOf(id)
    \/ GetDifficultyLoop
    \/ GetDifficultyReturn

SpecDifficulty == Init /\ [][NextDifficulty]_vars

\* get_difficulty run to its end: a loop that can take a step takes it
SpecDifficultyFair ==
    /\ Init
    /\ [][NextDifficulty]_vars
    /\ WF_vars(GetDifficultyLoop)
    /\ WF_vars(GetDifficultyReturn)

\* construction, and the mutating calls and capability operations of two
\* threads interleaved statement by statement
NextThreads ==
    \/ \E a \in Auths, u \in Uuids : Construct(a, u)
    \/ \E t \in Threads, a \in Auths, c \in FileContents :
            CallLoadFromFile(t, a, c)
    \/ \E t \in Threads, a \in Auths, d \in Targets, k \in Keys :
            CallGenerateNew(t, a, d, k)
    \/ \E t \in Threads : SetPrivateKey(t)
    \/ \E t \in Threads : SetPublicKey(t)
    \/ \E t \in Threads : SetKeyId(t)
    \/ \E t \in Threads : SaveFiles(t)
    \/ \E t \in Threads : SetEcc(t)
    \/ \E a \in Auths, t \in Threads : Observe(a, t)

SpecThreads == Init /\ [][NextThreads]_vars

TypeOK ==
    /\ backend \in {"RSA", "ECC"}
    /\ \A p \in Paths : disk[p].kind \in {"absent", "garbage", "priv", "pub"}
    /\ \A a \in Auths : auth[a].state \in {"none", "ready"}
    /\ search.pc \in {"idle", "loop"}
    /\ gd.pc \in {"idle", "loop", "done"}

\* ================================================================== claims
\* h <= 2^(HashBits - d), with the real-valued power for d > HashBits
WithinThreshold(h, d) ==
    IF d <= HashBits THEN h <= 2^(HashBits - d) ELSE h * 2^(d - HashBits) <= 1

\* C1: the key pair generate_new(d) found and persisted has an identifier
\* whose get_difficulty is at least d (both backends). Fails for RSA, whose
\* loop hashes the key object and not the identifier.
C1_PowAcceptance ==
    (/\ gd.pc = "done"
     /\ last.op = "generate_new"
     /\ last.res = "ok"
     /\ gd.key_id = cnt_key_id(PubKey(last.k)))
        => gd.result >= last.d

\* C2: whenever get_difficulty returns, for every target t in 0..HashBits the
\* acceptance test numeric_hash(id) <= 2^(HashBits - t) holds exactly when
\* the returned difficulty is at least t.
C2_Inverse ==
    gd.pc = "done" =>
        \A t \in Targets :
            (sha2(gd.key_id) <= 2^(HashBits - t)) <=> (gd.result >= t)

C2_Witness ==
    /\ gd.pc = "done"
    /\ gd.result >= 1
    /\ gd.result < HashBits

\* C10: the value get_difficulty returns is the largest d >= 0 with
\* numeric_hash(id) <= 2^(HashBits - d); it is never negative.
C10_LargestDifficulty ==
    gd.pc = "done" =>
        /\ gd.result >= 0
        /\ WithinThreshold(sha2(gd.key_id), gd.result)
        /\ \A d \in 0..(MaxLoop + 1) :
                WithinThreshold(sha2(gd.key_id), d) => d <= gd.result

\* the largest hash value: the predicate holds at d = 0 only
C10_Witness ==
    /\ gd.pc = "done"
    /\ sha2(gd.key_id) = 2^HashBits - 1
    /\ gd.result = 0

\* C3: reload. Right after an authority with application identifier u was
\* constructed, with both key files of u present, constructing another one
\* with the same u takes the load path: same key_id, no key generation, both
\* files unchanged. Fails for ECC with an absent u and an invalid private key
\* on disk: the fallback writes the files of "" and the constructor keeps
\* reading the files of "None".
C3_Reload ==
    [][(/\ last.op = "construct"
        /\ last.res = "ok"
        /\ ops' = ops + 1
        /\ last'.op = "construct"
        /\ last'.u = last.u
        /\ BothExist(disk, str(last.u)))
          => (/\ last'.res = "ok"
              /\ ~last'.gen
              /\ disk' = disk
              /\ auth'[last'.a].key_id = auth[last.a].key_id)]_vars

\* C4: after generate_new(d) returned, the object's private key, public
\* key and key_id are those of the pair found, and the files of the
\* authority's paths hold that pair. Fails for RSA (the fields are not
\* assigned) and for ECC when a write fails (the IOError is swallowed).
C4_GenerateNewReplacesBoth ==
    (last.op = "generate_new" /\ last.res = "ok") =>
        /\ auth[last.a].private_key = PrivKey(last.k)
        /\ auth[last.a].public_key = PubKey(last.k)
        /\ auth[last.a].key_id = cnt_key_id(PubKey(last.k))
        /\ disk[get_private_key_loc(auth[last.a].uuid)] = PrivKey(last.k)
        /\ disk[get_public_key_loc(auth[last.a].uuid)] = PubKey(last.k)

\* C5: the files generate_new and load_from_file persist to are the files
\* the constructor loads from: after such a call wrote both files, the
\* files a constructor with the same application identifier reads hold the
\* new pair. Fails for an absent identifier: the constructor reads the files
\* of str(None) = "None", the mutating calls write the files of "".
C5_SamePaths ==
    (/\ last.op \in {"generate_new", "load_from_file"}
     /\ last.res \in {"ok", "true"}
     /\ last.io = "ok")
        => /\ disk[get_private_key_loc(str(last.u))] = PrivKey(last.k)
           /\ disk[get_public_key_loc(str(last.u))] = PubKey(last.k)

C7_WriteFailureReported ==
    (last.op \in {"generate_new", "load_from_file"} /\ last.io # "ok")
        => last.res \notin {"ok", "true"}

\* C9: verify never raises, and on public key material that is not a key
\* it yields False. Fails for RSA (no try block) and for ECC on a value
\* whose len() or decode('hex') raises TypeError.
C9_VerifyNeverRaises ==
    last.op = "verify" =>
        /\ last.res # "raise"
        /\ last.arg \in {"garbage", "nonhex128", "notstring"} => last.res = "false"

\* the fields of one authority object belong to one key pair
PairConsistent(au) ==
    /\ au.private_key.kind = "priv"
    /\ au.public_key = privtopub(au.private_key)
    /\ au.key_id = cnt_key_id(au.public_key)
    /\ backend = "ECC" => au.ecc = ECCx(au.private_key)

\* thread t has assigned a field of its authority and not yet the last one
Updating(t) == thr[t].pc \in {"set_public", "set_key_id", "save", "set_ecc"}

\* C8: a capability operation interleaved with generate_new or
\* load_from_file on an authority whose fields belonged to one key pair
\* reads fields that all belong to one key pair, and two mutating calls on
\* one authority never interleave their assignments. Fails: the code takes
\* no lock.
C8_NoHalfReplaced ==
    /\ (seen.a # 0 /\ PairConsistent(seen.during)) => PairConsistent(seen.au)
    /\ \A t1, t2 \in Threads :
            (t1 # t2 /\ Updating(t1) /\ Updating(t2)) => thr[t1].a # thr[t2].a

\* C11: on a Ready authority, whatever constructions, generate_new and
\* load_from_file calls came before, verify(sign(m), m2) with the
\* authority's own public key is true for m2 = m and false for m2 # m.
\* Fails after a write of one half of a pair failed: a constructor then
\* loads a private key and a public key of different pairs.
C11_SignVerify ==
    (last.op = "verify" /\ last.sig = "signed") =>
        last.res = (IF last.k = last.d THEN "true" ELSE "false")

C13_Monotone ==
    (gd.pc = "done" /\ gd.prev_id # Null) =>
        /\ sha2(gd.prev_id) < sha2(gd.key_id) => gd.prev_result >= gd.result
        /\ sha2(gd.key_id) < sha2(gd.prev_id) => gd.result >= gd.prev_result

\* two calls with different results, the smaller hash first
C13_Witness ==
    /\ gd.pc = "done"
    /\ gd.prev_id # Null
    /\ sha2(gd.prev_id) < sha2(gd.key_id)
    /\ gd.prev_result > gd.result
    /\ gd.result >= 1

\* C14: encrypt/decrypt round trip. On a Ready authority, whatever
\* generate_new and load_from_file calls came before, encrypt(m) with the
\* authority's own public key (by default for both backends; passed as 64
\* bytes or as 128 hex characters for ECC) succeeds, and decrypt of the
\* result returns m. Fails when the object's public key is not the
\* counterpart of its private key.
C14_RoundTrip ==
    /\ (last.op = "encrypt" /\ (backend = "RSA" => last.arg = "default"))
            => last.res = "ok"
    /\ (last.op = "decrypt" /\ (backend = "RSA" => last.arg = "default"))
            => (last.res = "ok" /\ last.val = Msg(last.d))

C16_PairInvariant ==
    \A a \in Auths : Ready(a) =>
        /\ auth[a].private_key.kind = "priv"
        /\ auth[a].public_key = privtopub(auth[a].private_key)
        /\ auth[a].key_id = cnt_key_id(auth[a].public_key)

\* C17: isolation between application identifiers. A step of an operation
\* of an authority with identifier u leaves the key files of every other
\* string identifier v as they were, and a construction for u that takes
\* the load path has found u's own two files (for the absent identifier the
\* files __get_key_loc resolves, which are no string identifier's files).
\* Fails for the absent identifier: the constructor resolves str(None), the
\* files of the string identifier "None".
C17_Isolation ==
    [][last'.op \in {"construct", "generate_new", "load_from_file"} =>
        /\ \A v \in Uuids \ {NoneUuid, last'.u} :
                /\ disk'[get_private_key_loc(v)] = disk[get_private_key_loc(v)]
                /\ disk'[get_public_key_loc(v)] = disk[get_public_key_loc(v)]
        /\ (/\ ops' = ops + 1
            /\ last'.op = "construct"
            /\ last'.res = "ok"
            /\ ~last'.gen) =>
                /\ isfile(disk, get_private_key_loc(last'.u))
                /\ isfile(disk, get_public_key_loc(last'.u))]_vars

\* C18: get_difficulty terminates for every hash value, 0 and 1 included,
\* with a result of at most HashBits (256). The counter grows by one with
\* every iteration and the result is the counter less one, so this is: the
\* loop is never entered with a counter above HashBits + 1, and a returned
\* result is at most HashBits. Fails for hash 0: 0 <= pow(2, 256 - d) holds
\* for every d, the loop has no exit.
C18_Terminates ==
    /\ gd.pc = "loop" => gd.difficulty <= HashBits + 1
    /\ gd.pc = "done" => gd.result <= HashBits

\* the identifier of candidate k has difficulty at least d
Satisfying(k, d) == WithinThreshold(sha2(cnt_key_id(PubKey(k))), d)

\* C19: proof-of-work search liveness. generate_new(0) takes its first
\* candidate; the loop never rejects a candidate whose identifier has
\* difficulty >= d and is left only by accepting one; and generate_new(d)
\* terminates when the generator keeps producing such candidates. Fails
\* for RSA: the loop tests the hash of the key object, which raises
\* TypeError or is unrelated to the identifier.
C19_SearchLiveness ==
    /\ [][(search.pc = "loop" /\ search' # search) =>
            /\ search.d = 0 => search'.pc = "idle"
            /\ search'.pc = "loop" => ~Satisfying(search.k, search.d)
            /\ search'.pc = "idle" =>
                    (Satisfying(search.k, search.d) /\ last'.k = search.k)]_vars
    /\ \A d \in Targets :
            (search.pc = "loop" /\ search.d = d
                /\ \E k \in Keys : Satisfying(k, d))
            ~> (search.pc = "idle")
====
